---- MODULE Spec2Model ----
(***************************************************************************)
(* Foodgram backend: the recipe write path, the favourite / shopping-cart  *)
(* toggles, the shopping-list aggregation and the subscription toggle,     *)
(* as a state machine over the database tables.  Every request handler is  *)
(* an operator from the current tables and the request to the tables after *)
(* the request and the HTTP response; the actions apply the handlers.      *)
(***************************************************************************)
EXTENDS Integers, Sequences, FiniteSets, TLC

VARIABLES
    users,            \* ids of the rows of User
    last_user_id,     \* the auto-increment counter of User
    recipes,          \* recipe id -> row of Recipe with its associations, or NoRecipe
    last_recipe_id,   \* the auto-increment counter of Recipe
    favourite,        \* <<user, recipe>> -> number of Favourite rows
    shopping_cart,    \* <<user, recipe>> -> number of ShoppingCart rows
    subscribe,        \* <<user, author>> -> number of Subscribe rows
    response,         \* the last request served and its response
    inflight          \* worker -> the request it is serving and how far it has got

vars == <<users, last_user_id, recipes, last_recipe_id,
          favourite, shopping_cart, subscribe, response, inflight>>

----------------------------------------------------------------------------
(* Bounds *)

MaxUsers == 2
MaxRecipes == 2
MaxLen == 2
MaxRows == 3
MaxWorkers == 2

----------------------------------------------------------------------------
(* Reference data and identifiers *)

\* create_data.py seeds two ingredients and three tags; ids are 1, 2, ...
Ingredient ==
    << [name |-> "Ingredient 1", measurement_unit |-> "gram"],
       [name |-> "Ingredient 2", measurement_unit |-> "millilitre"] >>

Tag == << "tag1", "tag2", "tag3" >>

UserIds == 1..MaxUsers
RecipeIds == 1..MaxRecipes

\* request.user of a request without credentials (AnonymousUser)
Anonymous == 0
\* the account made by createsuperuser; accounts registered over the API are not staff
Superuser == 1

NoRecipe == [author |-> 0]
Range(s) == {s[i] : i \in DOMAIN s}

SeqsUpTo(S, n) == UNION {[1..k -> S] : k \in 0..n}

is_authenticated(user) == user \in users
is_staff(user) == user \in users /\ user = Superuser

----------------------------------------------------------------------------
(* api/permissions.py and the permission classes of RecipeViewSet *)

SAFE_METHODS == {"GET", "HEAD", "OPTIONS"}

IsAdminOrReadOnly_has_permission(method, user) ==
    method \in SAFE_METHODS \/ is_staff(user)

\* IsAdminOrReadOnly defines no object check: BasePermission's allows every object
IsAdminOrReadOnly_has_object_permission(method, user, obj) == TRUE

IsAuthorOrReadOnly_has_permission(method, user) ==
    method \in SAFE_METHODS \/ is_authenticated(user)

IsAuthorOrReadOnly_has_object_permission(method, user, obj) ==
    obj.author = user

\* permission_classes = (IsAuthorOrReadOnly | IsAdminOrReadOnly,)
RecipeViewSet_has_permission(method, user) ==
    \/ IsAuthorOrReadOnly_has_permission(method, user)
    \/ IsAdminOrReadOnly_has_permission(method, user)

\* What rest_framework.permissions.OR asks of an object differs between the
\* releases of the framework: up to 3.14 it is op1.has_object_permission or
\* op2.has_object_permission; from 3.15 each side also has to pass its own
\* has_permission.  The requirements of the build are not pinned here, so a
\* request is decided by either.
OR_releases == {"object_checks_only", "with_view_checks"}

RecipeViewSet_has_object_permission(release, method, user, obj) ==
    IF release = "object_checks_only"
    THEN \/ IsAuthorOrReadOnly_has_object_permission(method, user, obj)
         \/ IsAdminOrReadOnly_has_object_permission(method, user, obj)
    ELSE \/ /\ IsAuthorOrReadOnly_has_permission(method, user)
            /\ IsAuthorOrReadOnly_has_object_permission(method, user, obj)
         \/ /\ IsAdminOrReadOnly_has_permission(method, user)
            /\ IsAdminOrReadOnly_has_object_permission(method, user, obj)

\* A refused request: no credentials -> 401, credentials -> 403
permission_denied(user) == IF is_authenticated(user) THEN 403 ELSE 401

IsAuthenticated(user) == is_authenticated(user)

----------------------------------------------------------------------------
(* api/serializers.py: RecipeWriteSerializer *)

RECURSIVE ingredients_loop(_, _, _)
ingredients_loop(ingredients, i, ingredients_list) ==
    IF i > Len(ingredients) THEN "ok"
    ELSE LET item == ingredients[i] IN
         IF item.id \notin DOMAIN Ingredient THEN "Http404"
         ELSE IF item.id \in ingredients_list THEN "duplicate"
         ELSE IF item.amount <= 0 THEN "amount"
         ELSE ingredients_loop(ingredients, i + 1, ingredients_list \cup {item.id})

validate_ingredients_no_duplicate_check(value) ==
    LET RECURSIVE loop(_, _)
        loop(ingredients, i) ==
            IF i > Len(ingredients) THEN "ok"
            ELSE IF ingredients[i].id \notin DOMAIN Ingredient THEN "Http404"
            ELSE IF ingredients[i].amount <= 0 THEN "amount"
            ELSE loop(ingredients, i + 1)
    IN  IF value = <<>> THEN "empty" ELSE loop(value, 1)

validate_ingredients(value) ==
    IF value = <<>> THEN "empty" ELSE ingredients_loop(value, 1, {})

RECURSIVE tags_loop(_, _, _)
tags_loop(tags, i, tags_list) ==
    IF i > Len(tags) THEN "ok"
    ELSE IF tags[i] \in tags_list THEN "duplicate"
    ELSE tags_loop(tags, i + 1, tags_list \cup {tags[i]})

validate_tags_allowing_none(value) == tags_loop(value, 1, {})

validate_tags(value) ==
    IF value = <<>> THEN "empty" ELSE tags_loop(value, 1, {})

validate_cooking_time_up_to_600_only(value) ==
    IF value > 600 THEN "too_long" ELSE "ok"

validate_cooking_time(value) ==
    IF value <= 0 THEN "not_positive"
    ELSE IF value > 600 THEN "too_long"
    ELSE "ok"

\* PrimaryKeyRelatedField(queryset=Tag.objects.all(), many=True), then validate_tags
tags_field(data, partial) ==
    IF "tags" \notin DOMAIN data THEN (IF partial THEN "skip" ELSE "required")
    ELSE IF \E i \in DOMAIN data.tags : data.tags[i] \notin DOMAIN Tag
         THEN "does_not_exist"
    ELSE validate_tags(data.tags)

\* IngredientInRecipeWriteSerializer(many=True), then validate_ingredients
ingredients_field(data, partial) ==
    IF "ingredients" \notin DOMAIN data THEN (IF partial THEN "skip" ELSE "required")
    ELSE validate_ingredients(data.ingredients)

cooking_time_field(data, partial) ==
    IF "cooking_time" \notin DOMAIN data THEN (IF partial THEN "skip" ELSE "required")
    ELSE validate_cooking_time(data.cooking_time)

\* The fields are validated in the order of Meta.fields.  A ValidationError is
\* collected under its field; the Http404 of get_object_or_404 is not one and
\* ends the request at once.
no_read_only_fields == {}

\* author = CustomUserSerializer(read_only=True)
read_only_fields == {"author"}

\* validated_data holds the fields of the body that are writable: a read-only
\* field is left out whatever the body carries for it
to_internal_value(data) == [f \in DOMAIN data \ read_only_fields |-> data[f]]

is_valid(data, partial) ==
    LET result == [tags |-> tags_field(data, partial),
                   ingredients |-> ingredients_field(data, partial),
                   cooking_time |-> cooking_time_field(data, partial)]
        failed == {f \in DOMAIN result : result[f] \notin {"ok", "skip"}}
    IN  IF result.ingredients = "Http404" THEN [status |-> 404, errors |-> {}]
        ELSE IF failed # {}
             THEN [status |-> 400, errors |-> {<<f, result[f]>> : f \in failed}]
        ELSE [status |-> 200, errors |-> {}]

\* The many-to-many managers of a Recipe row
tags_clear(recipe) == [recipe EXCEPT !.tags = {}]

tags_set(recipe, tags) == [recipe EXCEPT !.tags = Range(tags)]

ingredients_clear_forgotten(recipe) == recipe

ingredients_clear(recipe) == [recipe EXCEPT !.ingredients = {}]

\* bulk_create of one IngredientInRecipe row per item
create_ingredients_amounts(ingredients, recipe) ==
    [recipe EXCEPT !.ingredients =
        @ \cup {<<ingredients[i].id, ingredients[i].amount>> : i \in DOMAIN ingredients}]

RecipeWriteSerializer_create(db, author, validated_data) ==
    LET id == db.last_recipe_id + 1
        recipe == [author |-> author, tags |-> {}, ingredients |-> {},
                   cooking_time |-> validated_data.cooking_time]
        tagged == tags_set(recipe, validated_data.tags)
    IN  [db EXCEPT !.last_recipe_id = id,
                   !.recipes[id] =
                       create_ingredients_amounts(validated_data.ingredients, tagged)]

\* super().update(instance, validated_data): every field left in
\* validated_data is set on the row
super_update(instance, validated_data) ==
    [f \in DOMAIN instance |->
        IF f \in DOMAIN validated_data \ {"tags", "ingredients"}
        THEN validated_data[f] ELSE instance[f]]

\* The plain fields are written; then the associations are cleared and
\* written again
RecipeWriteSerializer_update(db, pk, validated_data) ==
    LET instance == db.recipes[pk]
        saved == super_update(instance, validated_data)
        tagged == tags_set(tags_clear(saved), validated_data.tags)
    IN  [db EXCEPT !.recipes[pk] =
            create_ingredients_amounts(validated_data.ingredients,
                                       ingredients_clear(tagged))]

----------------------------------------------------------------------------
(* The tables as one value, and a handler's result *)

Tables ==
    [users |-> users, last_user_id |-> last_user_id,
     recipes |-> recipes, last_recipe_id |-> last_recipe_id,
     favourite |-> favourite, shopping_cart |-> shopping_cart,
     subscribe |-> subscribe]

\* pk is the row the response is about
Reply(db, pk, status, errors) ==
    [db |-> db, pk |-> pk, status |-> status, errors |-> errors, body |-> {}]

\* on_delete=CASCADE of the rows that point to a deleted recipe
cascade_recipe(table, pk) ==
    [p \in DOMAIN table |-> IF p[2] = pk THEN 0 ELSE table[p]]

----------------------------------------------------------------------------
(* api/views.py: RecipeViewSet, the ModelViewSet operations *)

\* POST /recipes/
RecipeViewSet_create(user, data) ==
    IF ~RecipeViewSet_has_permission("POST", user)
    THEN Reply(Tables, 0, permission_denied(user), {})
    ELSE LET v == is_valid(data, FALSE) IN
         IF v.status # 200
         THEN Reply(Tables, 0, v.status, v.errors)
         ELSE Reply(RecipeWriteSerializer_create(Tables, user, to_internal_value(data)),
                    last_recipe_id + 1, 201, {})

\* PUT (partial = FALSE) or PATCH (partial = TRUE) /recipes/<pk>/
RecipeViewSet_update(release, user, pk, data, partial) ==
    LET method == IF partial THEN "PATCH" ELSE "PUT"
    IN  IF ~RecipeViewSet_has_permission(method, user)
        THEN Reply(Tables, pk, permission_denied(user), {})
        ELSE IF recipes[pk] = NoRecipe
        THEN Reply(Tables, pk, 404, {})
        ELSE IF ~RecipeViewSet_has_object_permission(release, method, user, recipes[pk])
        THEN Reply(Tables, pk, permission_denied(user), {})
        ELSE LET v == is_valid(data, partial) IN
             IF v.status # 200
             THEN Reply(Tables, pk, v.status, v.errors)
             ELSE IF {"tags", "ingredients"} \ DOMAIN data # {}
             \* validated_data.pop('tags') raises KeyError; the transaction rolls back
             THEN Reply(Tables, pk, 500, {})
             ELSE Reply(RecipeWriteSerializer_update(Tables, pk, to_internal_value(data)),
                        pk, 200, {})

\* DELETE /recipes/<pk>/
RecipeViewSet_destroy(release, user, pk) ==
    IF ~RecipeViewSet_has_permission("DELETE", user)
    THEN Reply(Tables, pk, permission_denied(user), {})
    ELSE IF recipes[pk] = NoRecipe
    THEN Reply(Tables, pk, 404, {})
    ELSE IF ~RecipeViewSet_has_object_permission(release, "DELETE", user, recipes[pk])
    THEN Reply(Tables, pk, permission_denied(user), {})
    ELSE Reply([Tables EXCEPT !.recipes[pk] = NoRecipe,
                              !.favourite = cascade_recipe(@, pk),
                              !.shopping_cart = cascade_recipe(@, pk)],
               pk, 204, {})

----------------------------------------------------------------------------
(* api/views.py: RecipeViewSet, favourites and the shopping cart *)

\* model is "favourite" or "shopping_cart"
add_to_without_exists_check(model, user, pk) ==
    IF recipes[pk] = NoRecipe
    THEN Reply(Tables, pk, 404, {})
    ELSE Reply([Tables EXCEPT ![model][<<user, pk>>] = @ + 1], pk, 201, {})

_add_to(model, user, pk) ==
    IF Tables[model][<<user, pk>>] > 0
    THEN Reply(Tables, pk, 400, {"already_added"})
    ELSE IF recipes[pk] = NoRecipe
    THEN Reply(Tables, pk, 404, {})
    ELSE Reply([Tables EXCEPT ![model][<<user, pk>>] = @ + 1], pk, 201, {})

_delete_from(model, user, pk) ==
    IF Tables[model][<<user, pk>>] > 0
    THEN Reply([Tables EXCEPT ![model][<<user, pk>>] = 0], pk, 204, {})
    ELSE Reply(Tables, pk, 400, {"not_found"})

\* POST or DELETE /recipes/<pk>/favorite/
RecipeViewSet_favorite(user, method, pk) ==
    IF ~IsAuthenticated(user)
    THEN Reply(Tables, pk, permission_denied(user), {})
    ELSE IF method = "POST" THEN _add_to("favourite", user, pk)
    ELSE _delete_from("favourite", user, pk)

\* POST or DELETE /recipes/<pk>/shopping_cart/
RecipeViewSet_shopping_cart(user, method, pk) ==
    IF ~IsAuthenticated(user)
    THEN Reply(Tables, pk, permission_denied(user), {})
    ELSE IF method = "POST" THEN _add_to("shopping_cart", user, pk)
    ELSE _delete_from("shopping_cart", user, pk)

\* IngredientInRecipe joined to ShoppingCart through the recipe: one joined
\* row per ingredient row and cart row of the same recipe
joined_rows(user, pk) ==
    {[recipe |-> pk, ingredient |-> row[1], amount |-> row[2],
      n |-> shopping_cart[<<user, pk>>]] : row \in recipes[pk].ingredients}

cart_rows_of_every_user(user) ==
    UNION {joined_rows(u, pk) :
              u \in UserIds,
              pk \in {pk \in RecipeIds : recipes[pk] # NoRecipe}}

\* filter(recipe__shopping_cart__user=user)
cart_rows(user) ==
    UNION {joined_rows(user, pk) :
              pk \in {pk \in RecipeIds :
                         recipes[pk] # NoRecipe /\ shopping_cart[<<user, pk>>] > 0}}

RECURSIVE Sum(_)
Sum(rows) ==
    IF rows = {} THEN 0
    ELSE LET j == CHOOSE j \in rows : TRUE
         IN  j.amount * j.n + Sum(rows \ {j})

\* .values(name, measurement_unit).annotate(amount=Sum('amount'))
values_annotate_sum(rows) ==
    {[name |-> Ingredient[k.ingredient].name,
      measurement_unit |-> Ingredient[k.ingredient].measurement_unit,
      amount |-> Sum({j \in rows :
                        /\ Ingredient[j.ingredient].name = Ingredient[k.ingredient].name
                        /\ Ingredient[j.ingredient].measurement_unit
                              = Ingredient[k.ingredient].measurement_unit})] :
        k \in rows}

\* GET /recipes/download_shopping_cart/
RecipeViewSet_download_shopping_cart(user) ==
    IF ~IsAuthenticated(user)
    THEN Reply(Tables, 0, permission_denied(user), {})
    ELSE IF \A pk \in RecipeIds : shopping_cart[<<user, pk>>] = 0
    THEN Reply(Tables, 0, 400, {"cart_empty"})
    ELSE [Reply(Tables, 0, 200, {}) EXCEPT !.body = values_annotate_sum(cart_rows(user))]

----------------------------------------------------------------------------
(* users/views.py: UserViewSet, the ModelViewSet operations *)

\* POST /users/ registers an account
UserViewSet_create ==
    LET id == last_user_id + 1 IN
    Reply([Tables EXCEPT !.users = @ \cup {id}, !.last_user_id = id],
          id, 201, {})

\* The permission classes of the settings module apply to UserViewSet, which
\* names none: registration (POST) is open to callers without credentials and
\* any other write asks for credentials
default_permission(method, user) ==
    method \in SAFE_METHODS \/ method = "POST" \/ is_authenticated(user)

\* on_delete=CASCADE of the rows that point to a deleted user
cascade_user(table, pk) ==
    [p \in DOMAIN table |-> IF p[1] = pk THEN 0 ELSE table[p]]

cascade_author(table, pk) ==
    [p \in DOMAIN table |-> IF p[2] = pk THEN 0 ELSE table[p]]

\* DELETE /users/<pk>/: ModelViewSet.destroy, which UserViewSet inherits and
\* http_method_names lets through
UserViewSet_destroy(user, pk) ==
    IF ~default_permission("DELETE", user)
    THEN Reply(Tables, pk, permission_denied(user), {})
    ELSE IF pk \notin users
    THEN Reply(Tables, pk, 404, {})
    ELSE LET gone == {r \in RecipeIds : recipes[r] # NoRecipe /\ recipes[r].author = pk}
             without_recipes(table) ==
                 [p \in DOMAIN table |-> IF p[2] \in gone THEN 0 ELSE table[p]]
         IN  Reply([Tables EXCEPT
                       !.users = @ \ {pk},
                       !.subscribe = cascade_author(cascade_user(@, pk), pk),
                       !.recipes = [r \in RecipeIds |->
                                       IF r \in gone THEN NoRecipe ELSE recipes[r]],
                       !.favourite = without_recipes(cascade_user(@, pk)),
                       !.shopping_cart = without_recipes(cascade_user(@, pk))],
                   pk, 204, {})

subscribe_without_self_check(user, method, pk) ==
    IF ~is_authenticated(user) THEN Reply(Tables, pk, 401, {})
    ELSE IF pk \notin users THEN Reply(Tables, pk, 404, {})
    ELSE IF method = "POST"
    THEN IF subscribe[<<user, pk>>] > 0
         THEN Reply(Tables, pk, 400, {"already_subscribed"})
         ELSE Reply([Tables EXCEPT !.subscribe[<<user, pk>>] = @ + 1], pk, 201, {})
    ELSE IF subscribe[<<user, pk>>] = 0
         THEN Reply(Tables, pk, 400, {"not_subscribed"})
         ELSE Reply([Tables EXCEPT !.subscribe[<<user, pk>>] = @ - 1], pk, 204, {})

subscribe_deleting_reverse_row(user, method, pk) ==
    IF ~is_authenticated(user) THEN Reply(Tables, pk, 401, {})
    ELSE IF pk \notin users THEN Reply(Tables, pk, 404, {})
    ELSE IF method = "POST"
    THEN IF user = pk
         THEN Reply(Tables, pk, 400, {"self"})
         ELSE IF subscribe[<<user, pk>>] > 0
         THEN Reply(Tables, pk, 400, {"already_subscribed"})
         ELSE Reply([Tables EXCEPT !.subscribe[<<user, pk>>] = @ + 1], pk, 201, {})
    ELSE IF subscribe[<<user, pk>>] = 0
         THEN Reply(Tables, pk, 400, {"not_subscribed"})
         ELSE IF subscribe[<<pk, user>>] = 0
         THEN Reply(Tables, pk, 404, {})
         ELSE Reply([Tables EXCEPT !.subscribe[<<pk, user>>] = @ - 1], pk, 204, {})

\* POST or DELETE /users/<pk>/subscribe/
UserViewSet_subscribe(user, method, pk) ==
    IF ~is_authenticated(user) THEN Reply(Tables, pk, 401, {})
    ELSE IF pk \notin users THEN Reply(Tables, pk, 404, {})
    ELSE IF method = "POST"
    THEN IF user = pk
         THEN Reply(Tables, pk, 400, {"self"})
         ELSE IF subscribe[<<user, pk>>] > 0
         THEN Reply(Tables, pk, 400, {"already_subscribed"})
         \* Subscribe.objects.create
         ELSE Reply([Tables EXCEPT !.subscribe[<<user, pk>>] = @ + 1], pk, 201, {})
    ELSE IF subscribe[<<user, pk>>] = 0
         THEN Reply(Tables, pk, 400, {"not_subscribed"})
         \* get_object_or_404(Subscribe, user=user, author=author).delete()
         ELSE Reply([Tables EXCEPT !.subscribe[<<user, pk>>] = @ - 1], pk, 204, {})

----------------------------------------------------------------------------
(* Requests *)

Callers == users \cup {Anonymous}

\* What a client sends: ids of rows that exist and one id past them; a zero
\* amount and positive ones; cooking times on both sides of both limits
TagLists == SeqsUpTo({1, 2, Len(Tag) + 1}, MaxLen)
Amounts == {0, 1, 2}
Items ==
    {[id |-> 1, amount |-> 0]}
    \cup {[id |-> id, amount |-> 1] : id \in 1..(Len(Ingredient) + 1)}
IngredientLists == SeqsUpTo(Items, MaxLen)
CookingTimes == {0, 1, 600, 601}

\* Two bodies to vary: one that passes every validator and one that fails each
BaseBodies ==
    { [tags |-> <<1>>, ingredients |-> <<[id |-> 1, amount |-> 1]>>,
       cooking_time |-> 1],
      [tags |-> <<>>, ingredients |-> <<>>, cooking_time |-> 0] }

\* Bodies that pass every validator and name an author
AuthorBodies ==
    {[tags |-> <<2>>, ingredients |-> <<[id |-> 2, amount |-> 1]>>,
      cooking_time |-> 600, author |-> u] : u \in UserIds}

\* Request bodies: a base body with one field replaced by any value of that
\* field, and the bodies that name an author
FullPayloads ==
    UNION { {[b EXCEPT !.tags = t] : t \in TagLists}
            \cup {[b EXCEPT !.ingredients = g] : g \in IngredientLists}
            \cup {[b EXCEPT !.cooking_time = c] : c \in CookingTimes}
          : b \in BaseBodies }
    \cup AuthorBodies

Without(data, field) == [f \in DOMAIN data \ {field} |-> data[f]]

\* A PATCH body may leave a field out; the fields it holds go through the
\* validators a PUT body goes through
PartialPayloads ==
    {Without(data, field) :
        data \in BaseBodies, field \in {"tags", "ingredients", "cooking_time"}}
    \cup {Without(data, "cooking_time") : data \in AuthorBodies}

----------------------------------------------------------------------------
(* Actions *)

\* What the log keeps of a request body: the fields that name an id twice, the
\* cooking time and the author sent and, for a request that succeeded, the
\* associations sent
NoBody ==
    [repeated |-> {}, cooking_time |-> <<>>, author |-> <<>>,
     tags |-> {}, ingredients |-> {}]

Sent(data, status) ==
    LET tags == IF "tags" \in DOMAIN data THEN data.tags ELSE <<>>
        ingredients == IF "ingredients" \in DOMAIN data THEN data.ingredients ELSE <<>>
        ids == {ingredients[i].id : i \in DOMAIN ingredients}
    IN  [repeated |-> {f \in {"tags"} : Cardinality(Range(tags)) < Len(tags)}
                      \cup {f \in {"ingredients"} : Cardinality(ids) < Len(ingredients)},
         cooking_time |-> IF "cooking_time" \in DOMAIN data
                          THEN <<data.cooking_time>> ELSE <<>>,
         author |-> IF "author" \in DOMAIN data THEN <<data.author>> ELSE <<>>,
         tags |-> IF status < 300 THEN Range(tags) ELSE {},
         ingredients |-> IF status < 300
                         THEN {<<ingredients[i].id, ingredients[i].amount>> :
                                  i \in DOMAIN ingredients}
                         ELSE {}]

\* The tables change as the handler says and the request and its response
\* are logged
Respond(op, user, body, r) ==
    /\ users' = r.db.users
    /\ last_user_id' = r.db.last_user_id
    /\ recipes' = r.db.recipes
    /\ last_recipe_id' = r.db.last_recipe_id
    /\ favourite' = r.db.favourite
    /\ shopping_cart' = r.db.shopping_cart
    /\ subscribe' = r.db.subscribe
    /\ response' = [op |-> op, user |-> user, pk |-> r.pk, status |-> r.status,
                    errors |-> r.errors, body |-> r.body, sent |-> body]

\* A request served in one step, with no other request in between
Serve(op, user, body, r) ==
    /\ Respond(op, user, body, r)
    /\ UNCHANGED inflight

\* The recipe ids a request names: those handed out, and the next one
Targets == {pk \in RecipeIds : pk <= last_recipe_id + 1}

CanCreate == last_recipe_id < MaxRecipes

CreateRecipe(user, data) ==
    /\ CanCreate
    /\ LET r == RecipeViewSet_create(user, data)
       IN  Serve("create", user, Sent(data, r.status), r)

UpdateRecipe(user, pk, data) ==
    \E r \in {RecipeViewSet_update(release, user, pk, data, FALSE) :
                 release \in OR_releases} :
        Serve("update", user, Sent(data, r.status), r)

PartialUpdateRecipe(user, pk, data) ==
    \E r \in {RecipeViewSet_update(release, user, pk, data, TRUE) :
                 release \in OR_releases} :
        Serve("partial_update", user, Sent(data, r.status), r)

DestroyRecipe(user, pk) ==
    \E r \in {RecipeViewSet_destroy(release, user, pk) : release \in OR_releases} :
        Serve("destroy", user, NoBody, r)

Methods == {"POST", "DELETE"}

\* Rows of Favourite and ShoppingCart
RECURSIVE Total(_, _)
Total(table, cells) ==
    IF cells = {} THEN 0
    ELSE LET p == CHOOSE p \in cells : TRUE
         IN  table[p] + Total(table, cells \ {p})

Rows(db) ==
    Total(db.favourite, DOMAIN db.favourite)
    + Total(db.shopping_cart, DOMAIN db.shopping_cart)

\* The tables hold at most MaxRows rows of Favourite and ShoppingCart
Favorite(user, method, pk) ==
    LET r == RecipeViewSet_favorite(user, method, pk)
    IN  /\ Rows(r.db) <= MaxRows
        /\ Serve(IF method = "POST" THEN "favorite" ELSE "unfavorite", user, NoBody, r)

ShoppingCart(user, method, pk) ==
    LET r == RecipeViewSet_shopping_cart(user, method, pk)
    IN  /\ Rows(r.db) <= MaxRows
        /\ Serve(IF method = "POST" THEN "cart" ELSE "uncart", user, NoBody, r)

DownloadShoppingCart(user) ==
    Serve("download_shopping_cart", user, NoBody,
          RecipeViewSet_download_shopping_cart(user))

Subscribe(user, method, pk) ==
    Serve(IF method = "POST" THEN "subscribe" ELSE "unsubscribe", user, NoBody,
          UserViewSet_subscribe(user, method, pk))

DestroyUser(user, pk) ==
    Serve("destroy_user", user, NoBody, UserViewSet_destroy(user, pk))

NoResponse ==
    [op |-> "none", user |-> 0, pk |-> 0, status |-> 0, errors |-> {}, body |-> {},
     sent |-> NoBody]

\* The server's workers, each serving one request at a time
Workers == 1..MaxWorkers

\* at: where the request was when it failed; with: the workers that were
\* inside a transaction when this one committed its own
Idle ==
    [pc |-> "idle", user |-> 0, pk |-> 0, data |-> <<>>, partial |-> FALSE,
     work |-> NoRecipe, at |-> "", with |-> {}]

----------------------------------------------------------------------------
(* api/serializers.py: RecipeWriteSerializer.update, statement by statement, *)
(* with other requests served in between                                     *)

\* @transaction.atomic: the statements of the block are committed together
\* when it ends and undone together when it raises; without it every
\* statement is committed as it runs
autocommit == FALSE

transaction_atomic == TRUE

Statements == {"saved", "tags_cleared", "tags_set", "ingredients_cleared", "created"}

InTransaction == {"entered", "popped"} \cup Statements

\* The UPDATE of the recipe row keeps the row locked until the transaction
\* that ran it ends
row_locked(pk) ==
    /\ transaction_atomic
    /\ \E w \in Workers : inflight[w].pk = pk /\ inflight[w].pc \in Statements

\* The recipe as the statements of the worker's request find it: the
\* committed rows and, in a transaction, what the transaction has written
instance(w) ==
    IF transaction_atomic /\ inflight[w].pc \in Statements
    THEN inflight[w].work
    ELSE recipes[inflight[w].pk]

\* A statement has run and left the recipe as value
Write(w, pc, value) ==
    /\ inflight' = [inflight EXCEPT ![w].pc = pc,
                                    ![w].work = IF transaction_atomic THEN value ELSE @]
    /\ recipes' = IF transaction_atomic THEN recipes
                  ELSE [recipes EXCEPT ![inflight[w].pk] = value]
    /\ UNCHANGED <<users, last_user_id, last_recipe_id,
                   favourite, shopping_cart, subscribe, response>>

\* PUT or PATCH /recipes/<pk>/ up to the call of serializer.update: a request
\* refused before that is answered here
EnterUpdate(w, user, pk, data, partial) ==
    /\ inflight[w].pc = "idle"
    /\ \E r \in {RecipeViewSet_update(release, user, pk, data, partial) :
                    release \in OR_releases} :
          IF r.status \in {200, 500}
          THEN /\ inflight' =
                     [inflight EXCEPT ![w] =
                         [Idle EXCEPT !.pc = "entered", !.user = user, !.pk = pk,
                                      !.data = data, !.partial = partial]]
               /\ UNCHANGED <<users, last_user_id, recipes, last_recipe_id,
                              favourite, shopping_cart, subscribe, response>>
          ELSE Serve(IF partial THEN "partial_update" ELSE "update",
                     user, Sent(data, r.status), r)

\* The request ends with an unhandled exception: the transaction is rolled
\* back and the answer is 500
Rollback(w) ==
    /\ inflight' = [inflight EXCEPT ![w] = [Idle EXCEPT !.pc = "aborted",
                                                        !.at = inflight[w].pc]]
    /\ Respond(IF inflight[w].partial THEN "partial_update" ELSE "update",
               inflight[w].user, Sent(inflight[w].data, 500),
               Reply(Tables, inflight[w].pk, 500, {}))

\* tags = validated_data.pop('tags'); ingredients = validated_data.pop('ingredients')
Pop(w) ==
    /\ inflight[w].pc = "entered"
    /\ IF {"tags", "ingredients"} \subseteq DOMAIN inflight[w].data
       THEN /\ inflight' = [inflight EXCEPT ![w].pc = "popped"]
            /\ UNCHANGED <<users, last_user_id, recipes, last_recipe_id,
                           favourite, shopping_cart, subscribe, response>>
       ELSE Rollback(w)

\* instance = super().update(instance, validated_data)
SuperUpdate(w) ==
    /\ inflight[w].pc = "popped"
    /\ ~row_locked(inflight[w].pk)
    /\ Write(w, "saved", super_update(recipes[inflight[w].pk],
                                      to_internal_value(inflight[w].data)))

\* instance.tags.clear()
TagsClear(w) ==
    /\ inflight[w].pc = "saved"
    /\ Write(w, "tags_cleared", tags_clear(instance(w)))

\* instance.tags.set(tags)
TagsSet(w) ==
    /\ inflight[w].pc = "tags_cleared"
    /\ Write(w, "tags_set", tags_set(instance(w), inflight[w].data.tags))

\* instance.ingredients.clear()
IngredientsClear(w) ==
    /\ inflight[w].pc = "tags_set"
    /\ Write(w, "ingredients_cleared", ingredients_clear(instance(w)))

\* self.create_ingredients_amounts(ingredients=ingredients, recipe=instance)
BulkCreate(w) ==
    /\ inflight[w].pc = "ingredients_cleared"
    /\ Write(w, "created",
             create_ingredients_amounts(inflight[w].data.ingredients, instance(w)))

\* instance.save(); return instance: the block ends and the answer is 200
Commit(w) ==
    /\ inflight[w].pc = "created"
    /\ inflight' = [inflight EXCEPT ![w].pc = "committed", ![w].work = NoRecipe,
                                    ![w].with = {v \in Workers \ {w} :
                                                    inflight[v].pc \in InTransaction}]
    /\ Respond(IF inflight[w].partial THEN "partial_update" ELSE "update",
               inflight[w].user, Sent(inflight[w].data, 200),
               Reply([Tables EXCEPT !.recipes[inflight[w].pk] = instance(w)],
                     inflight[w].pk, 200, {}))

\* A statement raises (the database refuses it)
Raise(w) ==
    /\ inflight[w].pc \in {"popped"} \cup Statements
    /\ Rollback(w)

\* GET /recipes/<pk>/ reads the tags and the ingredient rows with one query
\* each, and a query finds the committed rows
retrieve(pk, field) == recipes[pk][field]

----------------------------------------------------------------------------
(* users/views.py: UserViewSet.subscribe, its checks and its write as two   *)
(* steps, with other requests served in between                             *)

\* POST or DELETE /users/<pk>/subscribe/ up to the statement that writes: a
\* request the checks refuse is answered here
CheckSubscribe(w, user, method, pk) ==
    /\ inflight[w].pc = "idle"
    /\ LET r == UserViewSet_subscribe(user, method, pk)
       IN  IF r.status \in {201, 204}
           THEN /\ inflight' = [inflight EXCEPT ![w] =
                                   [Idle EXCEPT !.pc = method, !.user = user, !.pk = pk]]
                /\ UNCHANGED <<users, last_user_id, recipes, last_recipe_id,
                               favourite, shopping_cart, subscribe, response>>
           ELSE Serve(IF method = "POST" THEN "subscribe" ELSE "unsubscribe",
                      user, NoBody, r)

\* Subscribe.objects.create(user=user, author=author): the unique constraint
\* on (user, author) refuses a second row with IntegrityError, which nothing
\* catches
WriteSubscribe(w) ==
    /\ inflight[w].pc = "POST"
    /\ inflight' = [inflight EXCEPT ![w] = Idle]
    /\ LET p == <<inflight[w].user, inflight[w].pk>>
       IN  Respond("subscribe", inflight[w].user, NoBody,
                   IF subscribe[p] > 0
                   THEN Reply(Tables, inflight[w].pk, 500, {"IntegrityError"})
                   ELSE Reply([Tables EXCEPT !.subscribe[p] = @ + 1],
                              inflight[w].pk, 201, {}))

\* get_object_or_404(Subscribe, user=user, author=author).delete()
DeleteSubscribe(w) ==
    /\ inflight[w].pc = "DELETE"
    /\ inflight' = [inflight EXCEPT ![w] = Idle]
    /\ LET p == <<inflight[w].user, inflight[w].pk>>
       IN  Respond("unsubscribe", inflight[w].user, NoBody,
                   IF subscribe[p] = 0
                   THEN Reply(Tables, inflight[w].pk, 404, {})
                   ELSE Reply([Tables EXCEPT !.subscribe[p] = @ - 1],
                              inflight[w].pk, 204, {}))

Init ==
    /\ users = {Superuser}
    /\ last_user_id = 1
    /\ recipes = [pk \in RecipeIds |-> NoRecipe]
    /\ last_recipe_id = 0
    /\ favourite = [p \in UserIds \X RecipeIds |-> 0]
    /\ shopping_cart = [p \in UserIds \X RecipeIds |-> 0]
    /\ subscribe = [p \in UserIds \X UserIds |-> 0]
    /\ response = NoResponse
    /\ inflight = [w \in Workers |-> Idle]

Register ==
    /\ last_user_id < MaxUsers
    /\ Serve("register", Anonymous, NoBody, UserViewSet_create)

ValidBody ==
    [tags |-> <<1>>, ingredients |-> <<[id |-> 1, amount |-> 1]>>, cooking_time |-> 1]

\* The recipe write path of one recipe.  The body of a request on a recipe
\* that does not exist is never read (get_object answers 404 first), so one
\* body stands for all of them.
NextRecipe ==
    \/ Register
    \/ \E user \in Callers, data \in FullPayloads :
          last_recipe_id = 0 /\ CreateRecipe(user, data)
    \/ \E user \in Callers, pk \in Targets :
          \E data \in (IF recipes[pk] = NoRecipe THEN {ValidBody} ELSE FullPayloads) :
              UpdateRecipe(user, pk, data)
    \/ \E user \in Callers, pk \in Targets, data \in PartialPayloads :
          PartialUpdateRecipe(user, pk, data)
    \/ \E user \in Callers, pk \in Targets : DestroyRecipe(user, pk)

SpecRecipe == Init /\ [][NextRecipe]_vars

\* Favourites and the shopping cart of one recipe, from before it is
\* published until after it is deleted
NextToggle ==
    \/ Register
    \/ \E user \in Callers : last_recipe_id = 0 /\ CreateRecipe(user, ValidBody)
    \/ \E user \in Callers, pk \in Targets : DestroyRecipe(user, pk)
    \/ \E user \in Callers, method \in Methods, pk \in Targets :
          Favorite(user, method, pk)
    \/ \E user \in Callers, method \in Methods, pk \in Targets :
          ShoppingCart(user, method, pk)

SpecToggle == Init /\ [][NextToggle]_vars

\* The shopping list.  The staff user publishes recipes with one of two
\* bodies that share an ingredient; every caller fills a cart and downloads.
CartBodies ==
    { ValidBody,
      [tags |-> <<2>>,
       ingredients |-> <<[id |-> 1, amount |-> 2], [id |-> 2, amount |-> 1]>>,
       cooking_time |-> 600] }

NextCart ==
    \/ Register
    \/ \E data \in CartBodies : CreateRecipe(Superuser, data)
    \/ \E user \in Callers, method \in Methods, pk \in RecipeIds :
          ShoppingCart(user, method, pk)
    \/ \E user \in Callers : DownloadShoppingCart(user)

SpecCart == Init /\ [][NextCart]_vars

\* Accounts and subscriptions
NextUsers ==
    \/ Register
    \/ \E user \in Callers, method \in Methods, pk \in UserIds :
          Subscribe(user, method, pk)
    \/ \E user \in Callers, pk \in UserIds : DestroyUser(user, pk)

SpecUsers == Init /\ [][NextUsers]_vars

\* Updates of one recipe served by several workers at once.  The bodies: two
\* that are valid, two that leave the tags or the ingredients out, one with
\* no tag and one that names an ingredient twice.
TxnBodies ==
    CartBodies
    \cup {Without(ValidBody, field) : field \in {"tags", "ingredients"}}
    \cup {[ValidBody EXCEPT !.tags = <<>>],
          [ValidBody EXCEPT !.ingredients =
              <<[id |-> 1, amount |-> 1], [id |-> 1, amount |-> 2]>>]}

NextTxn ==
    \/ \E data \in CartBodies : last_recipe_id = 0 /\ CreateRecipe(Superuser, data)
    \/ \E w \in Workers, pk \in Targets, data \in TxnBodies :
          \E partial \in {{"tags", "ingredients"} \ DOMAIN data # {}, FALSE} :
              EnterUpdate(w, Superuser, pk, data, partial)
    \/ \E w \in Workers : Pop(w)
    \/ \E w \in Workers : SuperUpdate(w)
    \/ \E w \in Workers : TagsClear(w)
    \/ \E w \in Workers : TagsSet(w)
    \/ \E w \in Workers : IngredientsClear(w)
    \/ \E w \in Workers : BulkCreate(w)
    \/ \E w \in Workers : Commit(w)
    \/ \E w \in Workers : Raise(w)

SpecTxn == Init /\ [][NextTxn]_vars

\* Subscriptions asked for by several requests at once
NextRace ==
    \/ Register
    \/ \E w \in Workers, user \in Callers, method \in Methods, pk \in UserIds :
          CheckSubscribe(w, user, method, pk)
    \/ \E w \in Workers : WriteSubscribe(w)
    \/ \E w \in Workers : DeleteSubscribe(w)

SpecRace == Init /\ [][NextRace]_vars

Next == NextRecipe \/ NextToggle \/ NextCart \/ NextUsers \/ NextTxn \/ NextRace

Spec == Init /\ [][Next]_vars

----------------------------------------------------------------------------
(* Claims about the recipe write path, checked under SpecRecipe *)

\* C1: after every successful update of a recipe (PUT or PATCH answered 200),
\* the recipe's stored tags are exactly the tags the request sent and its
\* stored (ingredient, amount) rows are exactly the rows the request sent:
\* nothing from before the update is left and nothing sent is missing.
C1_UpdateReplacesAssociations ==
    (response.op \in {"update", "partial_update"} /\ response.status = 200)
    => /\ recipes[response.pk] # NoRecipe
       /\ recipes[response.pk].tags = response.sent.tags
       /\ recipes[response.pk].ingredients = response.sent.ingredients

\* An update has succeeded and the recipe holds what it sent: two tags and
\* one ingredient row with amount 2.
C1_Witness ==
    /\ response.op = "update"
    /\ response.status = 200
    /\ response.sent.tags = {1, 2}
    /\ recipes[response.pk].tags = {1, 2}
    /\ recipes[response.pk].ingredients = {<<1, 1>>}

\* C2: an update or delete of an existing recipe changes it only if
\* the caller is authenticated and is the recipe's author; a caller without
\* credentials gets 401 and any authenticated caller but the author gets 403,
\* and the recipe is left as it was.
C2_OnlyAuthorMutates ==
    [][(response'.op \in {"update", "partial_update", "destroy"} /\ response'.pk \in RecipeIds
            /\ recipes[response'.pk] # NoRecipe)
       => LET caller == response'.user
              author == recipes[response'.pk].author
          IN  /\ recipes' # recipes => (caller \in users /\ caller = author)
              /\ caller \notin users
                    => (response'.status = 401 /\ recipes' = recipes)
              /\ (caller \in users /\ caller # author)
                    => (response'.status = 403 /\ recipes' = recipes)]_vars

\* C9: a create request by an authenticated caller whose ingredient list names
\* an ingredient id twice, or whose tag list names a tag id twice, is refused
\* while the body is validated (400 with an error on each such field, or the
\* 404 that validate_ingredients raises for an unknown ingredient id), and no
\* recipe row, tag association or ingredient association is written.
C9_DuplicatesRejectedOnCreate ==
    [][(response'.op = "create" /\ response'.sent.repeated # {}
            /\ response'.user \in users)
       => /\ response'.status \in {400, 404}
          /\ response'.status = 400
                => \A f \in response'.sent.repeated :
                      \E e \in response'.errors : e[1] = f
          /\ recipes' = recipes
          /\ last_recipe_id' = last_recipe_id]_vars

\* A create request that named an ingredient twice was answered 400 with the
\* duplicate error, and there is still no recipe.
C9_Witness ==
    /\ response.op = "create"
    /\ response.sent.repeated = {"ingredients"}
    /\ response.status = 400
    /\ <<"ingredients", "duplicate">> \in response.errors
    /\ last_recipe_id = 0
    /\ \A pk \in RecipeIds : recipes[pk] = NoRecipe

\* C10: a create or update request that sends a cooking time <= 0 or > 600
\* never succeeds and changes no table; when it is refused with 400 the
\* errors name cooking_time; and after every step every stored recipe has a
\* cooking time in 1..600.
C10_CookingTimeInRange ==
    [][/\ (response'.op \in {"create", "update", "partial_update"}
             /\ \E t \in Range(response'.sent.cooking_time) : t <= 0 \/ t > 600)
          => /\ response'.status \in {400, 401, 403, 404}
             /\ response'.status = 400
                   => \E e \in response'.errors : e[1] = "cooking_time"
             /\ recipes' = recipes
             /\ last_recipe_id' = last_recipe_id
       /\ \A pk \in RecipeIds :
             recipes'[pk] # NoRecipe => recipes'[pk].cooking_time \in 1..600]_vars

\* An update that sent 601 minutes was answered 400 and the recipe keeps its
\* cooking time.
C10_Witness ==
    /\ response.op = "update"
    /\ response.sent.cooking_time = <<601>>
    /\ response.status = 400
    /\ <<"cooking_time", "too_long">> \in response.errors
    /\ recipes[response.pk] # NoRecipe
    /\ recipes[response.pk].cooking_time \in 1..600

\* C15: a recipe is stored with the user who created it as its author,
\* whatever author the body of the request names, and no later request changes
\* the author of a stored recipe: not an update by the author or by staff, and
\* not one whose body names another author.
C15_AuthorIsFixedAtCreation ==
    [][\A pk \in RecipeIds :
          /\ (recipes[pk] = NoRecipe /\ recipes'[pk] # NoRecipe)
             => /\ response'.op = "create"
                /\ recipes'[pk].author = response'.user
          /\ (recipes[pk] # NoRecipe /\ recipes'[pk] # NoRecipe)
             => recipes'[pk].author = recipes[pk].author]_vars

\* Staff has updated the recipe of another user with a body that names staff
\* as the author; the update is stored and the author is who it was.
C15_Witness ==
    /\ response.op \in {"update", "partial_update"}
    /\ response.status = 200
    /\ response.user = Superuser
    /\ response.sent.author = <<Superuser>>
    /\ recipes[response.pk].tags = response.sent.tags
    /\ recipes[response.pk].author \notin {NoRecipe.author, Superuser}

----------------------------------------------------------------------------
(* Claims about favourites and the shopping cart, checked under SpecToggle *)

\* C4: when an authenticated caller adds a recipe to, or removes it from,
\* the favourites or the cart and no recipe has the id named, the answer is
\* 404 and no Favourite or ShoppingCart row is created or deleted.
C4_MissingRecipeIsNotFound ==
    [][(response'.op \in {"favorite", "unfavorite", "cart", "uncart"} /\ response'.user \in users
            /\ recipes[response'.pk] = NoRecipe)
       => /\ response'.status = 404
          /\ favourite' = favourite
          /\ shopping_cart' = shopping_cart]_vars

\* C5: adding a recipe to the favourites when the caller's Favourite row
\* exists is answered 400 "already added"; removing it when the row does not
\* exist is answered 400 "not found"; neither changes the Favourite or
\* ShoppingCart rows.  The same holds for the cart and its ShoppingCart rows.
C5_ToggleFailuresChangeNothing ==
    [][response'.user \in users
       => LET p == <<response'.user, response'.pk>>
              refused(error) ==
                  /\ response'.status = 400
                  /\ response'.errors = {error}
                  /\ favourite' = favourite
                  /\ shopping_cart' = shopping_cart
          IN  /\ (response'.op = "favorite" /\ favourite[p] > 0)
                    => refused("already_added")
              /\ (response'.op = "unfavorite" /\ favourite[p] = 0)
                    => refused("not_found")
              /\ (response'.op = "cart" /\ shopping_cart[p] > 0)
                    => refused("already_added")
              /\ (response'.op = "uncart" /\ shopping_cart[p] = 0)
                    => refused("not_found")]_vars

\* A user who has the recipe in the favourites asked to add it again and was
\* answered 400 "already added"; there is still one row.
C5_Witness ==
    /\ response.op = "favorite"
    /\ response.status = 400
    /\ response.errors = {"already_added"}
    /\ favourite[<<response.user, response.pk>>] = 1

----------------------------------------------------------------------------
(* The claim about the shopping list, checked under SpecCart *)

\* C6: a download by an authenticated caller whose cart is empty is answered
\* 400; with a non-empty cart it is answered 200 with exactly one line per
\* (name, unit) pair found in the recipes of the caller's cart, the line's
\* amount being the sum of that pair's amounts over those recipes; what is in
\* other users' carts adds nothing.
C6_ShoppingListSums ==
    LET user == response.user
        carted == {pk \in RecipeIds :
                      recipes[pk] # NoRecipe /\ shopping_cart[<<user, pk>>] > 0}
        pair(id) == <<Ingredient[id].name, Ingredient[id].measurement_unit>>
        \* the (recipe, ingredient, amount) rows of the carted recipes
        rows == {t \in RecipeIds \X (DOMAIN Ingredient) \X Amounts :
                    t[1] \in carted /\ <<t[2], t[3]>> \in recipes[t[1]].ingredients}
        RECURSIVE total(_)
        total(S) == IF S = {} THEN 0
                    ELSE LET t == CHOOSE t \in S : TRUE
                         IN  t[3] + total(S \ {t})
        line(t) == [name |-> pair(t[2])[1], measurement_unit |-> pair(t[2])[2],
                    amount |-> total({x \in rows : pair(x[2]) = pair(t[2])})]
    IN  (response.op = "download_shopping_cart" /\ user \in users)
        => IF carted = {}
           THEN response.status = 400 /\ response.body = {}
           ELSE /\ response.status = 200
                /\ response.body = {line(t) : t \in rows}
                /\ \A t \in rows :
                      Cardinality({l \in response.body :
                                      <<l.name, l.measurement_unit>> = pair(t[2])}) = 1

\* A user with two recipes in the cart that share ingredient 1 (amounts 1 and
\* 2) has downloaded the list while another user's cart held a recipe: the
\* list has one line for ingredient 1 with amount 3 and one for ingredient 2.
C6_Witness ==
    /\ response.op = "download_shopping_cart"
    /\ response.status = 200
    /\ \A pk \in RecipeIds : pk <= 2 => shopping_cart[<<response.user, pk>>] = 1
    /\ \E other \in users \ {response.user} :
          \E pk \in RecipeIds : shopping_cart[<<other, pk>>] = 1
    /\ response.body =
          {[name |-> Ingredient[1].name,
            measurement_unit |-> Ingredient[1].measurement_unit, amount |-> 3],
           [name |-> Ingredient[2].name,
            measurement_unit |-> Ingredient[2].measurement_unit, amount |-> 1]}

----------------------------------------------------------------------------
(* Claims about accounts and subscriptions, checked under SpecUsers *)

\* C3: every user that was ever registered still exists.
C3_NoUserIsDeleted == \A u \in 1..last_user_id : u \in users

\* C7: a subscribe request of an authenticated user that names the user
\* itself is answered 400 and leaves the Subscribe rows as they were, also
\* when subscriptions exist; so no Subscribe row ever has user = author.
C7_NoSelfSubscription ==
    [][/\ (response'.op = "subscribe" /\ response'.user \in users
             /\ response'.pk = response'.user)
          => /\ response'.status = 400
             /\ response'.errors = {"self"}
             /\ subscribe' = subscribe
       /\ \A u \in UserIds : subscribe'[<<u, u>>] = 0]_vars

\* A user who is followed has asked to follow itself and was answered 400.
C7_Witness ==
    /\ response.op = "subscribe"
    /\ response.user = response.pk
    /\ response.status = 400
    /\ response.errors = {"self"}
    /\ \E u \in UserIds : subscribe[<<u, response.user>>] = 1

\* C8: for an authenticated user and an existing author: subscribing when the
\* row exists and unsubscribing when it does not are answered 400 and change
\* no Subscribe row; a subscribe answered 201 adds the (user, author) row and
\* nothing else; an unsubscribe answered 204 removes that row and nothing
\* else; and there is never more than one row per (user, author).
C8_SubscriptionToggle ==
    [][/\ (response'.op \in {"subscribe", "unsubscribe"} /\ response'.user \in users
             /\ response'.pk \in users)
          => LET p == <<response'.user, response'.pk>> IN
             /\ (response'.op = "subscribe" /\ subscribe[p] > 0)
                   => (response'.status = 400 /\ subscribe' = subscribe)
             /\ (response'.op = "unsubscribe" /\ subscribe[p] = 0)
                   => (response'.status = 400 /\ subscribe' = subscribe)
             /\ response'.status = 201
                   => (subscribe[p] = 0 /\ subscribe' = [subscribe EXCEPT ![p] = 1])
             /\ response'.status = 204
                   => (subscribe[p] = 1 /\ subscribe' = [subscribe EXCEPT ![p] = 0])
             /\ response'.status \in {201, 204, 400}
       /\ \A p \in DOMAIN subscribe : subscribe'[p] <= 1]_vars

\* Two users followed each other and one has unsubscribed: its row is gone
\* and the other user's row is still there.
C8_Witness ==
    /\ response.op = "unsubscribe"
    /\ response.status = 204
    /\ subscribe[<<response.user, response.pk>>] = 0
    /\ subscribe[<<response.pk, response.user>>] = 1

----------------------------------------------------------------------------
(* Claims about updates served at once, checked under SpecTxn *)

\* C11: in every reachable state every stored recipe has at least one tag and
\* at least one ingredient row, and no two of its ingredient rows name the same
\* ingredient (its tags are one row per tag); this holds after a PUT or PATCH
\* that leaves the tags or the ingredients out and after an update that fails
\* between two of its statements.
C11_RecipesKeepAssociations ==
    \A pk \in RecipeIds :
        recipes[pk] # NoRecipe
        => /\ retrieve(pk, "tags") # {}
           /\ retrieve(pk, "ingredients") # {}
           /\ \A a, b \in retrieve(pk, "ingredients") : a[1] = b[1] => a = b

\* An update has cleared the ingredient rows and then failed; the recipe still
\* has its tags and its ingredient rows.
C11_Witness ==
    /\ \E w \in Workers :
          inflight[w].pc = "aborted" /\ inflight[w].at = "ingredients_cleared"
    /\ response.status = 500
    /\ recipes[response.pk] # NoRecipe
    /\ recipes[response.pk].tags # {}
    /\ recipes[response.pk].ingredients # {}

C14_LastCommitWins ==
    \A pk \in RecipeIds :
        LET committed == {w \in Workers :
                             inflight[w].pc = "committed" /\ inflight[w].pk = pk}
        IN  Cardinality(committed) >= 2
            => \E w \in committed :
                  /\ recipes[pk].tags = Range(inflight[w].data.tags)
                  /\ recipes[pk].ingredients =
                        {<<inflight[w].data.ingredients[i].id,
                           inflight[w].data.ingredients[i].amount>> :
                            i \in DOMAIN inflight[w].data.ingredients}

\* Two updates of one recipe with different tags and ingredients have both
\* committed, and one of them committed while the other was in its transaction.
C14_Witness ==
    \E v, w \in Workers :
        /\ inflight[v].pc = "committed"
        /\ inflight[w].pc = "committed"
        /\ inflight[v].pk = inflight[w].pk
        /\ inflight[v].data.tags # inflight[w].data.tags
        /\ inflight[v].data.ingredients # inflight[w].data.ingredients
        /\ w \in inflight[v].with

----------------------------------------------------------------------------
(* The claim about toggles asked for at once, checked under SpecRace *)

\* C13: however subscribe requests interleave, there is at most one Subscribe
\* row per (user, author), and a subscribe request is answered 201 or, when the
\* row is there already, with the 400 of the conflict; none ends in an
\* unhandled failure.
C13_TogglesAreAtomic ==
    [][/\ \A p \in DOMAIN subscribe : subscribe'[p] <= 1
       /\ (response'.op = "subscribe" /\ response'.user \in users
             /\ response'.pk \in users)
          => response'.status \in {201, 400}]_vars

====
